---- MODULE Spec2Model ----
(***************************************************************************)
(* Quality-control review of transcribed segments (code/py/qc.py).         *)
(*                                                                         *)
(* The state is the file system the program works on (the recording        *)
(* folders with their result.json, the ledger file qc.csv, the clip files  *)
(* of the qc directory) and the variables of one run of qc_transcribed.    *)
(* Strings are sequences of one-character strings, so that str.strip,      *)
(* str.lower and str.startswith are computed as Python computes them.      *)
(* Recording names are names that pandas reads back from qc.csv as the     *)
(* same string (not numeric-looking); avg_logprob, start and end are a     *)
(* function of the segment and are not carried in the rows. uuid5 is taken *)
(* to be one-to-one: a uid is kept as the string that is hashed.           *)
(***************************************************************************)
EXTENDS Integers, Sequences, FiniteSets, TLC

\* ------------------------------------------------------------------ bounds
MaxSeg == 2        \* most segments in one result.json
MaxSessions == 2   \* runs of qc_transcribed in one behaviour
MaxFaults == 1     \* failed writes of qc.csv in one behaviour
MaxNameLen == 3    \* longest folder name the uid is computed for
MaxId == 11        \* largest segment id the uid is computed for
MaxBox == 5        \* longest text of the label box that normalize is applied to

\* ---------------------------------------------------------------- strings
Whitespace == {" ", "\t", "\n"}

RECURSIVE lstrip(_)
lstrip(s) == IF s # <<>> /\ Head(s) \in Whitespace THEN lstrip(Tail(s)) ELSE s

RECURSIVE rstrip(_)
rstrip(s) ==
    IF s # <<>> /\ s[Len(s)] \in Whitespace
    THEN rstrip(SubSeq(s, 1, Len(s) - 1))
    ELSE s

strip(s) == rstrip(lstrip(s))

lower_char(c) ==
    CASE c = "A" -> "a"
      [] c = "Q" -> "q"
      [] c = "S" -> "s"
      [] OTHER -> c

lower(s) == [k \in 1..Len(s) |-> lower_char(s[k])]

\* word.startswith(prefix)
startswith(word, prefix) ==
    /\ Len(prefix) <= Len(word)
    /\ SubSeq(word, 1, Len(prefix)) = prefix

W_accept == <<"a", "c", "c", "e", "p", "t">>
W_replay == <<"r", "e", "p", "l", "a", "y">>
W_context == <<"c", "o", "n", "t", "e", "x", "t">>
W_inaudible == <<"i", "n", "a", "u", "d", "i", "b", "l", "e">>
W_label == <<"l", "a", "b", "e", "l">>
W_save == <<"s", "a", "v", "e">>
W_skip == <<"s", "k", "i", "p">>
W_quit == <<"q", "u", "i", "t">>
W_exit == <<"e", "x", "i", "t">>

L_inaudible == <<"<">> \o W_inaudible \o <<">">>
L_skipped == <<"[", "s", "k", "i", "p", "p", "e", "d", "]">>

\* ----------------------------------------------------------- the recordings
Names == {"A", "B"}
Ids == 0..(MaxSeg - 1)

\* the characters of the folder names: the name of recording B has a space
\* and a digit in it
folder_name(n) == IF n = "A" THEN <<"A">> ELSE <<"A", " ", "1">>

\* recording A has up to MaxSeg segments, recording B is a short one
max_seg(n) == IF n = "A" THEN MaxSeg ELSE 1

\* order of the recording names under sort_values
name_rank(n) == CASE n = "A" -> 1 [] n = "B" -> 2

\* text of segment i of recording n as the transcriber writes it: Whisper
\* texts start with a space; segment 1 of recording A has no speech.
segment_text(n, i) ==
    IF n = "A" /\ i = 1 THEN <<>>
    ELSE IF i = 0 THEN <<" ", "h", "i">>
    ELSE <<" ", "y", "o">>

\* avg_logprob of segment i of recording n, in tenths (higher = more
\* confident): later segments are less confident, and B.0 ties with A.1
avg_logprob(n, i) ==
    IF i = 0 THEN (IF n = "A" THEN 0 - 1 ELSE 0 - 3)
    ELSE 0 - (2 + i)

\* str(x) of an int that is not negative
RECURSIVE str(_)
str(x) ==
    LET digit(d) == <<"0", "1", "2", "3", "4", "5", "6", "7", "8", "9">>[d + 1]
    IN IF x < 10 THEN <<digit(x)>> ELSE Append(str(x \div 10), digit(x % 10))

\* a plausible slip: the name and the id are joined without the space
uuid5_input_joined(folder, x) == folder \o str(x)

\* line 20: the string that uuid5 hashes
uuid5_input(folder, x) == folder \o <<" ">> \o str(x)

\* str(uuid.uuid5(NAMESPACE_DNS, folder_name + " " + str(id)))
uid(n, i) == uuid5_input(folder_name(n), i)

NoClip == <<>>
Clip(n, i) == <<n, i>>
AllUids == {uid(n, i) : n \in Names, i \in Ids}

\* a result.json that json.load cannot parse, or with no "segments" in it
Malformed == 0 - 1

VARIABLES
    nseg,          \* nseg[n]: segments in transcribed/n/result.json, 0: no
                   \* folder, Malformed: a result.json that cannot be read
    qcfile,        \* qc.csv: [exists, rows]
    cache,         \* cache[u]: the clip file u.mp3 of the qc directory
    temp_clip,     \* temp_clip.mp3 of the qc directory
    pc,            \* "idle": no run; "loop": at the head of the for loop;
                   \* "prompt": in the action loop of one row
    qc,            \* the DataFrame qc of the run
    rows,          \* what qc.iterrows() iterates: the rows as the loop began
    pos,           \* position of the loop in rows
    bool_revisit,  \* "True", "False" or the string "n"
    bool_played,
    sessions,      \* runs started
    faults,        \* failed writes so far
    shown,         \* history: index labels of the rows presented in this run
    lastExit       \* "running", or how the last run ended: "normal",
                   \* "remove_failed" (the exception of line 293, after the
                   \* ledger was written), "crash" (an exception before that),
                   \* "killed" ("none": no run yet)

vars == <<nseg, qcfile, cache, temp_clip, pc, qc, rows,
          pos, bool_revisit, bool_played, sessions, faults, shown, lastExit>>

\* ------------------------------------------------------------ the DataFrame
Row(ix, n, i, u, t, l) ==
    [idx |-> ix, name |-> n, id |-> i, uid |-> u, text |-> t, label |-> l]
Key(r) == <<r.name, r.id>>
Keys(q) == {Key(q[k]) : k \in DOMAIN q}
NamesOf(q) == {q[k].name : k \in DOMAIN q}
DiskRow(r) ==
    [name |-> r.name, id |-> r.id, uid |-> r.uid, text |-> r.text, label |-> r.label]
DiskRows(q) == {DiskRow(q[k]) : k \in DOMAIN q}

\* to_csv(index=False) then read_csv(na_filter=False): the index is dropped
\* by the write and is the row number after the read.
to_csv(q) == [k \in DOMAIN q |-> DiskRow(q[k])]
read_csv(f) ==
    [k \in DOMAIN f |->
        Row(k - 1, f[k].name, f[k].id, f[k].uid, f[k].text, f[k].label)]

le_id_name(a, b) ==
    \/ a.id < b.id
    \/ a.id = b.id /\ name_rank(a.name) <= name_rank(b.name)

\* a plausible slip: the rows are ordered by decreasing avg_logprob
ge_logprob(a, b) == avg_logprob(a.name, a.id) >= avg_logprob(b.name, b.id)

le_logprob(a, b) == avg_logprob(a.name, a.id) <= avg_logprob(b.name, b.id)

\* the orders sort_values(by=["id", "name"]) can leave the rows at positions
\* I of q in: every arrangement that is sorted (rows with equal keys in any
\* order)
RECURSIVE sorted_id_name(_, _)
sorted_id_name(q, I) ==
    IF I = {} THEN {<<>>}
    ELSE UNION { { <<q[k]>> \o s : s \in sorted_id_name(q, I \ {k}) } :
                 k \in {k \in I : \A j \in I : le_id_name(q[k], q[j])} }

\* the same for sort_values(by="avg_logprob"); the default quicksort is not
\* stable, so rows of equal avg_logprob come in any order
RECURSIVE sorted_logprob(_, _)
sorted_logprob(q, I) ==
    IF I = {} THEN {<<>>}
    ELSE UNION { { <<q[k]>> \o s : s \in sorted_logprob(q, I \ {k}) } :
                 k \in {k \in I : \A j \in I : le_logprob(q[k], q[j])} }

reset_index(q) == [k \in DOMAIN q |-> [q[k] EXCEPT !.idx = k - 1]]

\* qc.at[index, "label"] = v
set_label(q, ix, v) ==
    [k \in DOMAIN q |-> IF q[k].idx = ix THEN [q[k] EXCEPT !.label = v] ELSE q[k]]

label_at(q, ix) == (CHOOSE r \in {q[k] : k \in DOMAIN q} : r.idx = ix).label

\* ------------------------------------------------------------------- import
\* json2segments: one unlabeled row per entry of the segment list
RECURSIVE json2segments(_, _)
json2segments(n, k) ==
    IF k = 0 THEN <<>>
    ELSE Append(json2segments(n, k - 1),
                Row(k - 1, n, k - 1, uid(n, k - 1), segment_text(n, k - 1), <<>>))

\* a plausible slip: no folder is passed over
skip_folder_never(qc0, n) == FALSE

\* lines 149-150: the folder is passed over, its name is already in the ledger
skip_folder(qc0, n) == qc0 # <<>> /\ n \in NamesOf(qc0)

\* lines 16-18 under line 156: json.load or json_data["segments"] raises on
\* the result.json of a folder that is read, and nothing catches it
import_raises(qc0, seg) ==
    \E n \in Names : ~skip_folder(qc0, n) /\ seg[n] = Malformed

\* qc1: the segments of the folders that are read, in listing order (no
\* result.json raises)
RECURSIVE collect(_, _, _)
collect(qc0, ns, seg) ==
    IF ns = {} THEN <<>>
    ELSE LET n == CHOOSE m \in ns : \A o \in ns : name_rank(m) <= name_rank(o)
             rest == collect(qc0, ns \ {n}, seg)
         IN IF skip_folder(qc0, n) \/ seg[n] = 0 \/ seg[n] = Malformed
            THEN rest
            ELSE json2segments(n, seg[n]) \o rest

\* drop_duplicates(subset=["name", "id"], keep="first")
RECURSIVE drop_duplicates(_)
drop_duplicates(q) ==
    IF q = <<>> THEN <<>>
    ELSE LET init == drop_duplicates(SubSeq(q, 1, Len(q) - 1))
             last == q[Len(q)]
         IN IF Key(last) \in Keys(init) THEN init ELSE Append(init, last)

\* a plausible slip: every segment found is appended, nothing passed over or
\* dropped
import_append(qc0, seg) == qc0 \o collect(<<>>, Names, seg)

\* a plausible slip: the freshly imported row replaces the one in the ledger
import_overwrite(qc0, seg) == drop_duplicates(collect(<<>>, Names, seg) \o qc0)

\* lines 145-165 up to the save: the ledger after the merge
import_merge(qc0, seg) ==
    LET qc1 == collect(qc0, Names, seg)
    IN IF qc1 # <<>> THEN drop_duplicates(qc0 \o qc1) ELSE qc0

\* new segments were found, so the merged ledger is sorted and written
import_saves(qc0, seg) == collect(qc0, Names, seg) # <<>>

Init ==
    /\ nseg = [n \in Names |-> 0]
    /\ qcfile = [exists |-> FALSE, rows |-> <<>>]
    /\ cache = [u \in AllUids |-> NoClip]
    /\ temp_clip = NoClip
    /\ pc = "idle"
    /\ qc = <<>>
    /\ rows = <<>>
    /\ pos = 0
    /\ bool_revisit = "n"
    /\ bool_played = FALSE
    /\ sessions = 0
    /\ faults = 0
    /\ shown = <<>>
    /\ lastExit = "none"


\* ------------------------------------------------------------ end of a run
\* the process is gone: its variables are lost, the files stay
EndSession(how) ==
    /\ pc' = "idle"
    /\ qc' = <<>>
    /\ rows' = <<>>
    /\ pos' = 0
    /\ bool_revisit' = "n"
    /\ bool_played' = FALSE
    /\ shown' = <<>>
    /\ lastExit' = how

\* qc.to_csv(qc_file) opens qc.csv for writing, which truncates it, and
\* writes the rows in order: a write that fails leaves the rows written so
\* far (k of them, fewer than all)
written(q) == [exists |-> TRUE, rows |-> to_csv(q)]
truncated(q, k) == [exists |-> TRUE, rows |-> to_csv(SubSeq(q, 1, k))]

\* ------------------------------------------------- the recordings appear
\* transcriber.process_audio_file: a recording is transcribed into its
\* folder of the transcribed directory. Recording B is the later one: it is
\* transcribed after the first run of the review.
NewRecording(n, k) ==
    /\ pc = "idle"
    /\ nseg[n] = 0
    /\ n = "B" => sessions >= 1
    /\ k \in 1..max_seg(n)
    /\ nseg' = [nseg EXCEPT ![n] = k]
    /\ UNCHANGED <<qcfile, cache, temp_clip, pc, qc, rows, pos,
                   bool_revisit, bool_played, sessions, faults, shown, lastExit>>

\* the transcriber is stopped while it writes result.json, and the file is
\* left cut short
MalformedRecording(n) ==
    /\ pc = "idle"
    /\ nseg[n] = 0
    /\ n = "B" => sessions >= 1
    /\ nseg' = [nseg EXCEPT ![n] = Malformed]
    /\ UNCHANGED <<qcfile, cache, temp_clip, pc, qc, rows, pos,
                   bool_revisit, bool_played, sessions, faults, shown, lastExit>>

\* the recording is queued again (transcribed2queue) and transcribed anew
\* into its emptied folder: a longer segment list
Retranscribe(n, k) ==
    /\ pc = "idle"
    /\ nseg[n] # 0
    /\ k \in 1..max_seg(n)
    /\ k > nseg[n]
    /\ nseg' = [nseg EXCEPT ![n] = k]
    /\ UNCHANGED <<qcfile, cache, temp_clip, pc, qc, rows,
                   pos, bool_revisit, bool_played, sessions, faults, shown, lastExit>>

\* ------------------------------------------------------------- the launch
load(f) == IF f.exists THEN read_csv(f.rows) ELSE <<>>

strip_columns(q) ==
    [k \in DOMAIN q |-> [q[k] EXCEPT !.text = strip(@), !.label = strip(@)]]

labeled_count(q) == Cardinality({k \in DOMAIN q : strip(q[k].label) # <<>>})

\* lines 167-185: strip, order by avg_logprob, the revisit question
Begin(q, ans) ==
    \E order \in sorted_logprob(strip_columns(q), DOMAIN q) :
        /\ qc' = reset_index(order)
        /\ rows' = reset_index(order)
        /\ pos' = 1
        /\ bool_revisit' = IF labeled_count(order) > 0
                           THEN (IF ans = "y" THEN "True" ELSE "False")
                           ELSE "n"
        /\ ans = "y" => labeled_count(order) > 0
        /\ pc' = "loop"
        /\ bool_played' = FALSE
        /\ shown' = <<>>
        /\ lastExit' = "running"

\* new segments are found, merged, and the ledger is written
LaunchImport(ans) ==
    /\ pc = "idle"
    /\ sessions < MaxSessions
    /\ ~import_raises(load(qcfile), nseg)
    /\ import_saves(load(qcfile), nseg)
    /\ LET merged == import_merge(load(qcfile), nseg)
       IN \E srt \in sorted_id_name(merged, DOMAIN merged) :
            /\ qcfile' = written(srt)
            /\ Begin(srt, ans)
    /\ sessions' = sessions + 1
    /\ UNCHANGED <<nseg, cache, temp_clip, faults>>

\* the same, and the write of qc.csv fails after k rows
LaunchWriteFails(k) ==
    /\ pc = "idle"
    /\ sessions < MaxSessions
    /\ ~import_raises(load(qcfile), nseg)
    /\ faults < MaxFaults
    /\ import_saves(load(qcfile), nseg)
    /\ LET merged == import_merge(load(qcfile), nseg)
       IN /\ k \in 0..(Len(merged) - 1)
          /\ \E srt \in sorted_id_name(merged, DOMAIN merged) :
                qcfile' = truncated(srt, k)
    /\ faults' = faults + 1
    /\ sessions' = sessions + 1
    /\ EndSession("crash")
    /\ UNCHANGED <<nseg, cache, temp_clip>>

\* json2segments raises on a result.json: the run dies in the import, before
\* anything is merged or written
LaunchMalformed ==
    /\ pc = "idle"
    /\ sessions < MaxSessions
    /\ import_raises(load(qcfile), nseg)
    /\ sessions' = sessions + 1
    /\ EndSession("crash")
    /\ UNCHANGED <<nseg, qcfile, cache, temp_clip, faults>>

\* no new segment: the ledger is the one loaded
LaunchLoaded(ans) ==
    /\ pc = "idle"
    /\ sessions < MaxSessions
    /\ ~import_raises(load(qcfile), nseg)
    /\ ~import_saves(load(qcfile), nseg)
    /\ qcfile.exists
    /\ Begin(load(qcfile), ans)
    /\ sessions' = sessions + 1
    /\ UNCHANGED <<nseg, qcfile, cache, temp_clip, faults>>

\* no ledger file and no segment: qc is pd.DataFrame(), and qc["text"] of
\* line 168 raises KeyError
LaunchNoLedger ==
    /\ pc = "idle"
    /\ sessions < MaxSessions
    /\ ~import_raises(load(qcfile), nseg)
    /\ ~import_saves(load(qcfile), nseg)
    /\ ~qcfile.exists
    /\ sessions' = sessions + 1
    /\ EndSession("crash")
    /\ UNCHANGED <<nseg, qcfile, cache, temp_clip, faults>>


\* ------------------------------------------------------------ the for loop
InLoop == pc = "loop" /\ pos <= Len(rows)

\* a plausible slip: the loop reads the row at its position in qc as it is
\* now, not as it was when the loop began
row_live == qc[pos]

\* the row of this iteration of qc.iterrows()
row == rows[pos]

\* a plausible slip: labeled rows are never passed over
skip_labeled_never(revisit, r) == FALSE

\* line 189: an already labeled row is passed over unless revisiting (the
\* string "n" is true in Python, as True is)
skip_labeled(revisit, r) == revisit = "False" /\ Len(strip(r.label)) > 0

SkipLabeled ==
    /\ InLoop
    /\ skip_labeled(bool_revisit, row)
    /\ pos' = pos + 1
    /\ UNCHANGED <<nseg, qcfile, cache, temp_clip, pc, qc,
                   rows, bool_revisit, bool_played, sessions, faults, shown, lastExit>>

\* lines 193-198: no audio file of the recording is found in its folder
\* (the folder is looked into anew for every row)
AudioMissing ==
    /\ InLoop
    /\ ~skip_labeled(bool_revisit, row)
    /\ pos' = pos + 1
    /\ UNCHANGED <<nseg, qcfile, cache, temp_clip, pc, qc,
                   rows, bool_revisit, bool_played, sessions, faults, shown, lastExit>>

\* lines 200-208: trim_audio writes temp_clip.mp3, or fails and leaves what
\* was there (the exception is caught); play_audio plays what is there, or
\* fails
Present(trim_ok, play_ok) ==
    /\ InLoop
    /\ ~skip_labeled(bool_revisit, row)
    /\ temp_clip' = IF trim_ok THEN Clip(row.name, row.id) ELSE temp_clip
    /\ bool_played' = (play_ok /\ temp_clip' # NoClip)
    /\ play_ok => temp_clip' # NoClip
    /\ shown' = Append(shown, row.idx)
    /\ pc' = "prompt"
    /\ UNCHANGED <<nseg, qcfile, cache, qc, rows, pos,
                   bool_revisit, sessions, faults,
                   lastExit>>

\* ---------------------------------------------------------- the action loop
\* what the reviewer may type at the prompt
Inputs ==
    { <<>>, <<"a">>, <<"A">>, W_accept, <<"r">>, <<"c">>, <<"c", "o">>,
      <<"i", "n", "a", "u", "d">>, <<"l">>, <<"s">>, <<"S">>, <<"s", "a">>,
      <<"s", "k">>, <<"q">>, <<"Q">>, <<"e">>, <<"x">>, <<" ">>,
      <<"a", "c", "c", "e", "p", "t", "s">> }

\* lines 212-215
action_of(played, typed) ==
    IF played THEN (IF typed = <<>> THEN W_accept ELSE typed) ELSE W_inaudible

\* the branch of the if/elif chain of lines 217-287 that a = action.lower()
\* takes
branch(a) ==
    IF a = <<>> \/ startswith(W_accept, a) THEN "accept"
    ELSE IF startswith(W_replay, a) THEN "replay"
    ELSE IF startswith(W_context, a) THEN "context"
    ELSE IF startswith(W_inaudible, a) THEN "inaudible"
    ELSE IF startswith(W_label, a) THEN "label"
    ELSE IF startswith(W_save, a) THEN "save"
    ELSE IF startswith(W_skip, a) THEN "skip"
    ELSE IF startswith(W_quit, a) \/ startswith(W_exit, a) THEN "quit"
    ELSE "unrecognized"

AtPrompt(typed, b) ==
    /\ pc = "prompt"
    /\ typed \in Inputs
    /\ branch(lower(action_of(bool_played, typed))) = b

\* a plausible slip: the scratch clip is moved whatever is there
must_move_always(c, u) == TRUE

\* a plausible slip: the scratch clip is never moved
must_move_never(c, u) == FALSE

\* lines 225, 253, 265, 280: uid_audio does not exist yet
must_move(c, u) == c[u] = NoClip

\* a plausible change: the ledger is written after every terminal action
persist_saves(f, q) ==
    written(CHOOSE srt \in sorted_id_name(q, DOMAIN q) : TRUE)

\* what a terminal action leaves of qc.csv f, the ledger in memory being q:
\* the action loop is left by break and nothing is written
persist_after_action(f, q) == f

\* lines 224-227 (and 252-256, 264-274, 279-283): the clip is moved under
\* the uid if no file is there, and the action loop is left. os.rename of a
\* temp_clip.mp3 that does not exist raises FileNotFoundError: the run dies
\* with the label set in memory only.
Commit(q) ==
    LET u == row.uid
    IN IF must_move(cache, u) /\ temp_clip = NoClip
       THEN /\ EndSession("crash")
            /\ UNCHANGED <<cache, temp_clip, qcfile>>
       ELSE /\ IF must_move(cache, u)
               THEN /\ cache' = [cache EXCEPT ![u] = temp_clip]
                    /\ temp_clip' = NoClip
               ELSE UNCHANGED <<cache, temp_clip>>
            /\ qc' = q
            /\ qcfile' = persist_after_action(qcfile, q)
            /\ pos' = pos + 1
            /\ pc' = "loop"
            /\ UNCHANGED <<rows, bool_revisit, bool_played, shown, lastExit>>

\* a plausible slip: accept stores the text whatever label the row has
Accept_overwrites(typed) ==
    /\ AtPrompt(typed, "accept")
    /\ Commit(set_label(qc, row.idx, row.text))
    /\ UNCHANGED <<nseg, sessions, faults>>

\* lines 217-227
Accept(typed) ==
    /\ AtPrompt(typed, "accept")
    /\ Commit(IF Len(row.label) > 0 /\ row.label # row.text
              THEN qc
              ELSE IF Len(row.label) = 0
                   THEN set_label(qc, row.idx, row.text)
                   ELSE qc)
    /\ UNCHANGED <<nseg, sessions, faults>>

Replay(typed) ==
    /\ AtPrompt(typed, "replay")
    /\ UNCHANGED vars

\* lines 230-249: the neighbours are printed and temp_context.mp3 is written
\* and opened; nothing reads that file afterwards, and it is no part of the
\* state
Context(typed) ==
    /\ AtPrompt(typed, "context")
    /\ UNCHANGED vars

Inaudible(typed) ==
    /\ AtPrompt(typed, "inaudible")
    /\ Commit(set_label(qc, row.idx, L_inaudible))
    /\ UNCHANGED <<nseg, sessions, faults>>

\* what the reviewer leaves in the text box (the widget adds a line break)
Typed(r) ==
    { r.text \o <<"\n">>, <<" ", "o", "\t", " ", "k", "\n">>, <<"\n">> }

replace_char(s, c, d) == [k \in DOMAIN s |-> IF s[k] = c THEN d ELSE s[k]]

has_double_space(s) == \E k \in 1..(Len(s) - 1) : s[k] = " " /\ s[k + 1] = " "

\* new_label.replace("  ", " "): one pass, left to right, not overlapping
RECURSIVE replace_double(_)
replace_double(s) ==
    IF Len(s) < 2 THEN s
    ELSE IF s[1] = " " /\ s[2] = " "
         THEN <<" ">> \o replace_double(SubSeq(s, 3, Len(s)))
         ELSE <<s[1]>> \o replace_double(Tail(s))

RECURSIVE collapse(_)
collapse(s) == IF has_double_space(s) THEN collapse(replace_double(s)) ELSE s

\* a plausible slip: the double spaces are replaced once, not until none is
\* left
normalize_one_pass(box) ==
    replace_double(replace_char(replace_char(strip(box), "\t", " "), "\n", " "))

\* lines 98 and 259-262
normalize(box) ==
    collapse(replace_char(replace_char(strip(box), "\t", " "), "\n", " "))

Label(typed) ==
    /\ AtPrompt(typed, "label")
    /\ \E box \in Typed(row) : Commit(set_label(qc, row.idx, normalize(box)))
    /\ UNCHANGED <<nseg, sessions, faults>>

\* the window is closed without a submit: get_paragraph_input returns None
\* and None.replace of line 259 raises AttributeError
LabelClosed(typed) ==
    /\ AtPrompt(typed, "label")
    /\ EndSession("crash")
    /\ UNCHANGED <<nseg, qcfile, cache, temp_clip, sessions, faults>>

\* a plausible slip: the save branch ends with break, as the terminal
\* branches do
Save_and_break(typed) ==
    /\ AtPrompt(typed, "save")
    /\ \E srt \in sorted_id_name(qc, DOMAIN qc) :
         /\ qc' = srt
         /\ qcfile' = written(srt)
    /\ pos' = pos + 1
    /\ pc' = "loop"
    /\ UNCHANGED <<nseg, cache, temp_clip, rows, bool_revisit, bool_played,
                   sessions, faults, shown, lastExit>>

\* lines 275-276: sort_and_save_qc sorts qc in place and writes it
Save(typed) ==
    /\ AtPrompt(typed, "save")
    /\ \E srt \in sorted_id_name(qc, DOMAIN qc) :
         /\ qc' = srt
         /\ qcfile' = written(srt)
    /\ UNCHANGED <<nseg, cache, temp_clip, pc, rows, pos,
                   bool_revisit, bool_played, sessions, faults, shown,
                   lastExit>>

SaveWriteFails(typed, k) ==
    /\ AtPrompt(typed, "save")
    /\ faults < MaxFaults
    /\ k \in 0..(Len(qc) - 1)
    /\ \E srt \in sorted_id_name(qc, DOMAIN qc) : qcfile' = truncated(srt, k)
    /\ faults' = faults + 1
    /\ EndSession("crash")
    /\ UNCHANGED <<nseg, cache, temp_clip, sessions>>

Skip(typed) ==
    /\ AtPrompt(typed, "skip")
    /\ Commit(set_label(qc, row.idx, L_skipped))
    /\ UNCHANGED <<nseg, sessions, faults>>

Unrecognized(typed) ==
    /\ AtPrompt(typed, "unrecognized")
    /\ UNCHANGED vars

\* ------------------------------------------------------------- lines 292-293
\* the ledger is written; os.remove(temp_clip) raises FileNotFoundError when
\* temp_clip.mp3 is not there
SessionEnd ==
    /\ \E srt \in sorted_id_name(qc, DOMAIN qc) : qcfile' = written(srt)
    /\ temp_clip' = NoClip
    /\ EndSession(IF temp_clip = NoClip THEN "remove_failed" ELSE "normal")
    /\ UNCHANGED <<nseg, cache, sessions, faults>>

\* a plausible slip: quit marks the row as skipped before the run ends
Quit_marks_row(typed) ==
    /\ AtPrompt(typed, "quit")
    /\ \E srt \in sorted_id_name(qc, DOMAIN qc) :
          qcfile' = written(set_label(srt, row.idx, L_skipped))
    /\ temp_clip' = NoClip
    /\ EndSession("normal")
    /\ UNCHANGED <<nseg, cache, sessions, faults>>

\* lines 284-293: quit or exit leaves both loops, and the run ends
Quit(typed) ==
    /\ AtPrompt(typed, "quit")
    /\ SessionEnd

\* the rows are exhausted, and the run ends
Finish ==
    /\ pc = "loop"
    /\ pos > Len(rows)
    /\ SessionEnd

\* the same two, and the write of qc.csv fails after k rows
FinishWriteFails(k) ==
    /\ \/ pc = "loop" /\ pos > Len(rows)
       \/ \E typed \in Inputs : AtPrompt(typed, "quit")
    /\ faults < MaxFaults
    /\ k \in 0..(Len(qc) - 1)
    /\ \E srt \in sorted_id_name(qc, DOMAIN qc) : qcfile' = truncated(srt, k)
    /\ faults' = faults + 1
    /\ EndSession("crash")
    /\ UNCHANGED <<nseg, cache, temp_clip, sessions>>

\* the run is ended from outside (the terminal is closed, the process is
\* killed) while it waits for the reviewer
Interrupt ==
    /\ pc = "prompt"
    /\ EndSession("killed")
    /\ UNCHANGED <<nseg, qcfile, cache, temp_clip, sessions, faults>>

Next ==
    \/ \E n \in Names, k \in 1..MaxSeg : NewRecording(n, k)
    \/ \E n \in Names : MalformedRecording(n)
    \/ \E n \in Names, k \in 1..MaxSeg : Retranscribe(n, k)
    \/ \E ans \in {"y", "n"} : LaunchImport(ans)
    \/ \E k \in 0..(MaxSeg * Cardinality(Names)) : LaunchWriteFails(k)
    \/ \E ans \in {"y", "n"} : LaunchLoaded(ans)
    \/ LaunchNoLedger
    \/ LaunchMalformed
    \/ SkipLabeled
    \/ AudioMissing
    \/ \E t \in BOOLEAN, p \in BOOLEAN : Present(t, p)
    \/ \E w \in Inputs : Accept(w)
    \/ \E w \in Inputs : Replay(w)
    \/ \E w \in Inputs : Context(w)
    \/ \E w \in Inputs : Inaudible(w)
    \/ \E w \in Inputs : Label(w)
    \/ \E w \in Inputs : LabelClosed(w)
    \/ \E w \in Inputs : Save(w)
    \/ \E w \in Inputs, k \in 0..(MaxSeg * Cardinality(Names)) : SaveWriteFails(w, k)
    \/ \E w \in Inputs : Skip(w)
    \/ \E w \in Inputs : Quit(w)
    \/ \E w \in Inputs : Unrecognized(w)
    \/ Finish
    \/ \E k \in 0..(MaxSeg * Cardinality(Names)) : FinishWriteFails(k)
    \/ Interrupt

Spec == Init /\ [][Next]_vars


\* ---------------------------------------------------------------- the claims
InSession == pc \in {"loop", "prompt"}

\* the step is a launch that got past the merge: a run begins
Launched == pc = "idle" /\ pc' = "loop"

\* no row of the run has been looked at yet
JustLaunched == pc = "loop" /\ pos = 1 /\ shown = <<>>

\* the segments of the recording folders
FolderKeys(seg) == {<<n, i>> : n \in Names, i \in Ids} \cap
                   {k \in Names \X Int : k[2] < seg[k[1]]}

RowOfKey(q, k) == CHOOSE r \in {q[j] : j \in DOMAIN q} : Key(r) = k

\* C1: the merge of a launch never changes the label of a row of the ledger:
\* every row of qc.csv as it was is, with its label, in the ledger of the run
\* and in qc.csv as the launch leaves it.
C1_LabelsKept ==
    [][Launched =>
        \A k \in DOMAIN qcfile.rows :
            /\ \E j \in DOMAIN qc' :
                  /\ Key(qc'[j]) = Key(qcfile.rows[k])
                  /\ qc'[j].label = qcfile.rows[k].label
            /\ \E j \in DOMAIN qcfile'.rows :
                  /\ Key(qcfile'.rows[j]) = Key(qcfile.rows[k])
                  /\ qcfile'.rows[j].label = qcfile.rows[k].label]_vars

\* a second run has merged the new recording B into a ledger that held a
\* labeled row of recording A, whose folder (with the same segment) is there
C1_Witness ==
    /\ JustLaunched
    /\ sessions = 2
    /\ nseg["A"] > 0
    /\ \E j \in DOMAIN qc : qc[j].name = "A" /\ qc[j].label # <<>>
    /\ \E j \in DOMAIN qc : qc[j].name = "B"

\* C2: the import is idempotent: once a launch has merged the folders into
\* the ledger, merging the same folders into the ledger it left gives the
\* same rows, each once.
C2_Idempotent ==
    InSession =>
        LET again == import_merge(load(qcfile), nseg)
        IN /\ Len(again) = Len(qcfile.rows)
           /\ DiskRows(again) = {qcfile.rows[k] : k \in DOMAIN qcfile.rows}

\* a run that merged a new recording into a ledger with a labeled row
C2_Witness ==
    /\ InSession
    /\ sessions = 2
    /\ \E j \in DOMAIN qcfile.rows :
          qcfile.rows[j].name = "A" /\ qcfile.rows[j].label # <<>>
    /\ \E j \in DOMAIN qcfile.rows :
          qcfile.rows[j].name = "B" /\ qcfile.rows[j].label = <<>>

\* C3: no two rows of the ledger, in memory or in qc.csv, have the same
\* (name, id).
C3_UniqueKeys ==
    /\ Cardinality(Keys(qc)) = Len(qc)
    /\ Cardinality(Keys(qcfile.rows)) = Len(qcfile.rows)

\* qc.csv holds three rows after a second import
C3_Witness ==
    /\ sessions = 2
    /\ Len(qcfile.rows) = 3
    /\ "A" \in NamesOf(qcfile.rows)
    /\ "B" \in NamesOf(qcfile.rows)

\* C4, as claimed: after the merge the ledger holds every row it held and
\* every segment of the folders, those of a recording that already has rows
\* in the ledger included (stated for the runs before which no write of
\* qc.csv has failed).
C4_Original ==
    [][(Launched /\ faults = 0) =>
        Keys(qcfile.rows) \cup FolderKeys(nseg) \subseteq Keys(qc')]_vars

\* C4, amended: after the merge the ledger holds the rows it held and the
\* segments of the folders whose recording had no row in the ledger, and no
\* other row; the segments of a recording that already has a row in the
\* ledger are not imported.
C4_Amended ==
    [][Launched =>
        /\ Keys(qc') =
              Keys(qcfile.rows) \cup
              {k \in FolderKeys(nseg) : k[1] \notin NamesOf(qcfile.rows)}
        /\ \A k \in DOMAIN qcfile.rows :
              \E j \in DOMAIN qc' :
                  /\ Key(qc'[j]) = Key(qcfile.rows[k])
                  /\ qc'[j].text = strip(qcfile.rows[k].text)
                  /\ qc'[j].label = qcfile.rows[k].label
        /\ \A k \in FolderKeys(nseg) :
              k[1] \notin NamesOf(qcfile.rows) =>
                  /\ RowOfKey(qc', k).text = strip(segment_text(k[1], k[2]))
                  /\ RowOfKey(qc', k).label = <<>>]_vars

\* a run has merged the new recording B while the folder of A, already in
\* the ledger, holds a segment the ledger does not
C4_Witness ==
    /\ JustLaunched
    /\ "B" \in NamesOf(qc)
    /\ <<"A", 0>> \in Keys(qc)
    /\ <<"A", 1>> \in FolderKeys(nseg)
    /\ <<"A", 1>> \notin Keys(qc)


\* the row presented last, and the row the loop has just left
LastShown == shown[Len(shown)]
RowOfIdx(q, ix) == CHOOSE r \in {q[j] : j \in DOMAIN q} : r.idx = ix

\* C5: a clip file that exists under a uid is never replaced or removed (the
\* cache holds one file per uid, cache[u]): whatever the step, the file
\* under u is the file that was there.
C5_ClipKept ==
    [][\A u \in AllUids : cache[u] # NoClip => cache'[u] = cache[u]]_vars

\* a terminal action has ended a row whose clip was in the cache already:
\* the scratch clip cut for the row is still there, the cache holds a clip
\* under the uid of the row
C5_Witness ==
    /\ pc = "loop"
    /\ pos > 1
    /\ shown # <<>>
    /\ LastShown = rows[pos - 1].idx
    /\ temp_clip = Clip(rows[pos - 1].name, rows[pos - 1].id)
    /\ cache[uid(rows[pos - 1].name, rows[pos - 1].id)] # NoClip

\* C6: every row with a label that is not empty, in the ledger of the run
\* and in qc.csv, has a clip file under its uid.
C6_LabeledHasClip ==
    /\ \A j \in DOMAIN qc :
          qc[j].label # <<>> => cache[uid(qc[j].name, qc[j].id)] # NoClip
    /\ \A j \in DOMAIN qcfile.rows :
          qcfile.rows[j].label # <<>> =>
              cache[uid(qcfile.rows[j].name, qcfile.rows[j].id)] # NoClip

\* a run has labeled a row with its transcript, moved the clip cut for it
\* under its uid, gone on and ended, and qc.csv holds the labeled row
C6_Witness ==
    /\ pc = "idle"
    /\ lastExit = "normal"
    /\ \E j \in DOMAIN qcfile.rows :
          /\ qcfile.rows[j].label # <<>>
          /\ qcfile.rows[j].label = qcfile.rows[j].text
          /\ cache[uid(qcfile.rows[j].name, qcfile.rows[j].id)]
                = Clip(qcfile.rows[j].name, qcfile.rows[j].id)

\* C7: the rows presented in a run come in non-decreasing avg_logprob, and
\* a row presented in a run that does not revisit has an empty label when
\* it is reached.
C7_Order ==
    /\ \A i, j \in DOMAIN shown :
          i < j => le_logprob(RowOfIdx(qc, shown[i]), RowOfIdx(qc, shown[j]))
    /\ (pc = "prompt" /\ bool_revisit # "True") =>
          label_at(qc, LastShown) = <<>>

\* a second row is presented after a save in the action loop has sorted
\* the ledger by (id, name), which is not the order of the traversal
C7_Witness ==
    /\ pc = "prompt"
    /\ Len(shown) >= 2
    /\ \E k \in DOMAIN qc : qc[k].idx # rows[k].idx
    /\ \A k \in 1..(Len(qc) - 1) : le_id_name(qc[k], qc[k + 1])

\* in a run that does not revisit, a row labeled when the run began has
\* that label in memory
C8_Kept ==
    (InSession /\ bool_revisit # "True") =>
        \A k \in DOMAIN rows :
            rows[k].label # <<>> => label_at(qc, rows[k].idx) = rows[k].label

\* and in qc.csv as a step of the run leaves it
C8_KeptOnDisk ==
    (InSession /\ bool_revisit # "True") =>
        \A k \in DOMAIN rows : \A j \in DOMAIN qcfile'.rows :
            (rows[k].label # <<>> /\ Key(qcfile'.rows[j]) = Key(rows[k])) =>
                qcfile'.rows[j].label = rows[k].label

\* a step of a run changes a label that is not empty into another that is
\* not empty only if the reviewer chose to revisit
C8_Relabel ==
    (InSession /\ pc' \in {"loop", "prompt"}) =>
        \A k \in DOMAIN rows :
            LET old == label_at(qc, rows[k].idx)
                new == label_at(qc', rows[k].idx)
            IN (old # <<>> /\ new # <<>> /\ new # old) => bool_revisit = "True"

\* C8: in a run that does not revisit, a row labeled when the run began
\* keeps that label, in memory through the run and in qc.csv as the run
\* leaves it; and a label goes from one non-empty value to another only in a
\* run where the reviewer chose to revisit.
C8_LabelsForward == []C8_Kept /\ [][C8_KeptOnDisk /\ C8_Relabel]_vars

\* a run that does not revisit has gone through all the rows, one of them
\* labeled when it began, another labeled by the run
C8_Witness ==
    /\ pc = "loop"
    /\ pos > Len(rows)
    /\ bool_revisit = "False"
    /\ \E k \in DOMAIN rows : rows[k].label # <<>>
    /\ \E k \in DOMAIN rows :
          rows[k].label = <<>> /\ label_at(qc, rows[k].idx) # <<>>

\* the label of the row of key k in qc.csv
disk_label(k) ==
    (CHOOSE r \in {qcfile.rows[j] : j \in DOMAIN qcfile.rows} : Key(r) = k).label

C10_Atomic ==
    [][(faults' > faults /\ qcfile.exists) => qcfile' = qcfile]_vars

\* the step is the end of a run that has exhausted its rows or was told to
\* quit, and the write of qc.csv does not fail
ReachesEnd == Finish \/ \E w \in Inputs : Quit(w)

\* C11, as claimed: a run that reaches its end, by exhausting the rows or by
\* quit, writes the ledger to qc.csv, leaves no temp_clip.mp3 and ends
\* without an exception, whether temp_clip.mp3 is there or not.
C11_EndsClean ==
    [][ReachesEnd =>
          /\ lastExit' = "normal"
          /\ temp_clip' = NoClip
          /\ qcfile'.exists
          /\ {qcfile'.rows[j] : j \in DOMAIN qcfile'.rows} = DiskRows(qc)]_vars

\* the first run, on the two segments of recording A imported into a ledger
\* that did not exist, the reviewer not revisiting
FirstRunOfTwo ==
    /\ InSession
    /\ sessions = 1
    /\ Keys(rows) = {<<"A", 0>>, <<"A", 1>>}
    /\ bool_revisit # "True"

\* both rows have been presented and left, each with its text as its label
BothAccepted ==
    /\ FirstRunOfTwo
    /\ pc = "loop"
    /\ pos = 3
    /\ Len(shown) = 2
    /\ \A k \in DOMAIN rows : label_at(qc, rows[k].idx) = rows[k].text

\* C12: from no ledger, with one recording of two segments of different
\* avg_logprob: the first row presented is the one of lower avg_logprob
\* (segment 1); accept leaves the text of the row as its label and the clip
\* cut for the row under its uid; and when both rows were accepted the run
\* ends with exactly the two clip files in the cache and a qc.csv of exactly
\* the two rows, each with its text as label, ordered by (id, name).
C12_Scenario ==
    [][FirstRunOfTwo =>
          /\ (pos = 1 /\ \E t, p \in BOOLEAN : Present(t, p)) =>
                /\ Key(row) = <<"A", 1>>
                /\ avg_logprob("A", 1) < avg_logprob("A", 0)
          /\ (\E w \in Inputs : Accept(w)) =>
                /\ pc' = "loop"
                /\ label_at(qc', row.idx) = row.text
                /\ cache'[row.uid] = Clip(row.name, row.id)
          /\ (BothAccepted /\ Finish) =>
                /\ {u \in AllUids : cache'[u] # NoClip} = {uid("A", 0), uid("A", 1)}
                /\ Len(qcfile'.rows) = 2
                /\ Key(qcfile'.rows[1]) = <<"A", 0>>
                /\ Key(qcfile'.rows[2]) = <<"A", 1>>
                /\ \A j \in 1..2 : qcfile'.rows[j].label = qcfile'.rows[j].text]_vars

\* the first run has ended after both rows were presented in turn and
\* accepted: qc.csv holds the two rows with their texts as labels, the cache
\* the two clips
C12_Witness ==
    /\ pc = "idle"
    /\ sessions = 1
    /\ Len(qcfile.rows) = 2
    /\ qcfile.rows[1].label = <<"h", "i">>
    /\ \A j \in 1..2 : qcfile.rows[j].label = qcfile.rows[j].text
    /\ cache[uid("A", 0)] = Clip("A", 0)
    /\ cache[uid("A", 1)] = Clip("A", 1)

\* a terminal action has ended on the row at some time: a clip is under its
\* uid (every terminal action leaves one there, and nothing else puts one)
WasDecided(r) == cache[r.uid] # NoClip

\* C13, as claimed: a row on which accept, inaudible, label or skip has
\* ended in one run is not presented in a later run that does not revisit,
\* whatever its text and whatever label was submitted: when a run begins
\* after a run that reached its end, every such row is one that the loop
\* passes over unless revisiting.
C13_NotPresentedAgain ==
    [][(Launched /\ lastExit \in {"normal", "remove_failed"}) =>
          \A j \in DOMAIN qc' :
              WasDecided(qc'[j]) => skip_labeled("False", qc'[j])]_vars

\* the texts of the label box that normalize is checked on
BoxChars == {"a", "b", " ", "\t", "\n"}
Boxes == UNION {[1..n -> BoxChars] : n \in 0..MaxBox}

\* the non-whitespace tokens of s in order, a single space after each
\* run of whitespace that a token follows
RECURSIVE squeeze(_)
squeeze(s) ==
    IF s = <<>> THEN <<>>
    ELSE IF Head(s) \in Whitespace
         THEN LET r == squeeze(lstrip(s))
              IN IF r = <<>> THEN <<>> ELSE <<" ">> \o r
         ELSE <<Head(s)>> \o squeeze(Tail(s))

\* l is box normalized: no whitespace at its ends, no tab, no line break,
\* no two spaces in a row, and the tokens of box in order with single spaces
\* between them
IsNormalOf(l, box) ==
    /\ l = <<>> \/ (l[1] \notin Whitespace /\ l[Len(l)] \notin Whitespace)
    /\ \A k \in DOMAIN l : l[k] \notin {"\t", "\n"}
    /\ ~has_double_space(l)
    /\ l = squeeze(lstrip(box))

NormalizesAll == \A box \in Boxes : IsNormalOf(normalize(box), box)

\* C14: the label that the label action stores is the submitted text
\* normalized: for every text of the box (here every text of up to MaxBox
\* letters, spaces, tabs and line breaks, and the texts the reviewer submits
\* in a run) it has no whitespace at its ends, no tab, no line break and no
\* two spaces in a row, and it is the tokens of the text in order with
\* single spaces between them.
C14_Normalized ==
    [][/\ NormalizesAll
       /\ (pc = "prompt" /\ pc' = "loop" /\ \E w \in Inputs : Label(w)) =>
             \E box \in Typed(row) :
                 IsNormalOf(label_at(qc', row.idx), box)]_vars

\* the label action has stored "o k" for the box " o<tab> k<line break>"
C14_Witness ==
    /\ pc = "loop"
    /\ pos > 1
    /\ shown # <<>>
    /\ LastShown = rows[pos - 1].idx
    /\ label_at(qc, LastShown) = <<"o", " ", "k">>

\* the folder names and segment ids the hashed string is computed for
NameChars == {"A", " ", "1"}
NameStrings == UNION {[1..n -> NameChars] : n \in 1..MaxNameLen}

\* as many hashed strings as (name, id) pairs: no two pairs give the same
UidsDistinct ==
    Cardinality({uuid5_input(f, x) : f \in NameStrings, x \in 0..MaxId})
        = Cardinality(NameStrings) * (MaxId + 1)

\* C15: the uid is a function of (name, id): the string that is hashed is
\* different for different pairs, for names with spaces and digits too (here
\* every name of up to MaxNameLen characters "A", space, "1" and every id up
\* to MaxId); and every row of the ledger, in memory and in qc.csv, in the
\* run that imported it and in every later one, has the uid of its (name,
\* id), different from the uid of every other row.
C15_UidOfKey ==
    /\ UidsDistinct
    /\ \A j \in DOMAIN qc : qc[j].uid = uid(qc[j].name, qc[j].id)
    /\ \A j \in DOMAIN qcfile.rows :
          qcfile.rows[j].uid = uid(qcfile.rows[j].name, qcfile.rows[j].id)
    /\ \A j, k \in DOMAIN qc : j # k => qc[j].uid # qc[k].uid

\* a second run has read back from qc.csv segment 1 of the recording named
\* "A" and imported segment 0 of the recording named "A 1": the hashed
\* strings are "A 1" and "A 1 0"
C15_Witness ==
    /\ JustLaunched
    /\ sessions = 2
    /\ \E j \in DOMAIN qc : qc[j].uid = <<"A", " ", "1">>
    /\ \E j \in DOMAIN qc : qc[j].uid = <<"A", " ", "1", " ", "0">>

\* the step starts a run while there is no qc.csv (every result.json can be
\* read, and no write fails)
LaunchWithoutLedger ==
    /\ pc = "idle"
    /\ ~qcfile.exists
    /\ ~import_raises(load(qcfile), nseg)
    /\ sessions' = sessions + 1
    /\ faults' = faults

\* C16, as claimed: a run started while there is no qc.csv does not fail in
\* loading: it goes on from an empty ledger to the loop, with the segments
\* of the folders as its unlabeled rows, and with no row at all when there
\* is no recording to import.
C16_NoLedgerLoads ==
    [][LaunchWithoutLedger =>
          /\ pc' = "loop"
          /\ Keys(qc') = FolderKeys(nseg)
          /\ \A j \in DOMAIN qc' : qc'[j].label = <<>>]_vars

\* the step is the presentation of a row for which trim_audio fails
TrimFails == pc = "loop" /\ \E p \in BOOLEAN : Present(FALSE, p)

\* C17, as claimed: when the scratch clip of a row cannot be produced the
\* row is passed over: the reviewer is not prompted, the loop goes on to the
\* next row, no label changes and no clip is put in the cache.
C17_TrimFailureSkips ==
    [][TrimFails =>
          /\ pc' = "loop"
          /\ pos' = pos + 1
          /\ qc' = qc
          /\ cache' = cache]_vars

\* the step is the action loop of a row whose playback failed: the action is
\* "inaudible" without a prompt
ForcedInaudible ==
    pc = "prompt" /\ ~bool_played /\ \E w \in Inputs : Inaudible(w)

\* C18, as claimed: whenever the playback of the scratch clip fails the run
\* does not fail: the label of the row becomes <inaudible>, a clip is under
\* its uid afterwards, and the loop goes on to the next row.
C18_PlaybackFailure ==
    [][ForcedInaudible =>
          /\ pc' = "loop"
          /\ pos' = pos + 1
          /\ label_at(qc', row.idx) = L_inaudible
          /\ cache'[row.uid] # NoClip]_vars

\* the step starts a run whose import reads a result.json that is malformed,
\* while another folder that it reads has segments (no write of qc.csv has
\* failed)
LaunchWithMalformed ==
    /\ pc = "idle"
    /\ sessions' = sessions + 1
    /\ faults = 0
    /\ faults' = 0
    /\ import_raises(load(qcfile), nseg)
    /\ \E n \in Names : ~skip_folder(load(qcfile), n) /\ nseg[n] >= 1

\* C19, as claimed: a recording whose result.json is malformed is passed
\* over and the import is not aborted: the run goes on to the loop with the
\* segments of every other recording that the import reads in its ledger.
C19_MalformedSkipped ==
    [][LaunchWithMalformed =>
          /\ pc' = "loop"
          /\ \A n \in Names :
                (~skip_folder(load(qcfile), n) /\ nseg[n] >= 1) =>
                    \A i \in 0..(nseg[n] - 1) : <<n, i>> \in Keys(qc')]_vars

\* line 210: the action names the prompt offers
Vocabulary ==
    {W_accept, W_replay, W_context, W_label, W_inaudible, W_save, W_skip, W_quit}

\* the action names that a is a prefix of
Matches(a) == {w \in Vocabulary : startswith(w, a)}

\* C20, as claimed: at the prompt, an input that is a prefix of several
\* action names (such as "s", of save and of skip) or of none is taken as
\* unrecognized: the reviewer is prompted again and nothing changes. (An
\* empty input stands for accept.)
C20_UniquePrefix ==
    (pc = "prompt" /\ bool_played) =>
        \A w \in Inputs :
            LET a == lower(action_of(bool_played, w))
            IN Cardinality(Matches(a)) # 1 => branch(a) = "unrecognized"

\* the inputs that the if/elif chain takes to branch b when the row was played
InputsOf(b) == {w \in Inputs : branch(lower(action_of(TRUE, w))) = b}
I_replay == InputsOf("replay")
I_context == InputsOf("context")
I_save == InputsOf("save")
I_unrecognized == InputsOf("unrecognized")
I_quit == InputsOf("quit")

\* C21: quit leaves the row under review as it was and ends the run: the
\* label of the row in memory is the one it had when it was reached, qc.csv
\* as the run leaves it holds the ledger of the run with that label for the
\* row, no clip is put in the cache, and the run is over (no row is
\* presented after it).
C21_QuitFrame ==
    [][(pc = "prompt" /\ bool_played /\ \E w \in I_quit : Quit(w)) =>
          /\ label_at(qc, row.idx) = row.label
          /\ {qcfile'.rows[j] : j \in DOMAIN qcfile'.rows} = DiskRows(qc)
          /\ \E j \in DOMAIN qcfile'.rows :
                /\ Key(qcfile'.rows[j]) = Key(row)
                /\ qcfile'.rows[j].label = row.label
          /\ cache' = cache
          /\ pc' = "idle"
          /\ lastExit' = "normal"]_vars

\* the first run has ended by quit at its second row, after a terminal
\* action on the first: qc.csv holds one labeled row and the row under
\* review without a label, and no clip is under the uid of that row
C21_Witness ==
    /\ pc = "idle"
    /\ sessions = 1
    /\ lastExit = "normal"
    /\ Len(qcfile.rows) = 2
    /\ \E j, k \in DOMAIN qcfile.rows :
          /\ qcfile.rows[j].label # <<>>
          /\ cache[qcfile.rows[j].uid] # NoClip
          /\ qcfile.rows[k].label = <<>>
          /\ cache[qcfile.rows[k].uid] = NoClip

\* the step is one of the actions that do not end the row
SaveStep == \E w \in I_save : Save(w)

NonTerminal ==
    /\ pc = "prompt"
    /\ bool_played
    /\ \/ \E w \in I_replay : Replay(w)
       \/ \E w \in I_context : Context(w)
       \/ \E w \in I_unrecognized : Unrecognized(w)
       \/ SaveStep

\* C22: replay, context, save and an input that is not recognized leave
\* the label of every row and the clip files of the cache as they are, and
\* the run at the prompt of the same row; replay, context and an
\* unrecognized input leave qc.csv as it is, and after save qc.csv holds the
\* ledger of the run.
C22_NonTerminalFrame ==
    [][NonTerminal =>
          /\ pc' = "prompt"
          /\ pos' = pos
          /\ rows' = rows
          /\ shown' = shown
          /\ cache' = cache
          /\ temp_clip' = temp_clip
          /\ \A k \in DOMAIN rows :
                label_at(qc', rows[k].idx) = label_at(qc, rows[k].idx)
          /\ DiskRows(qc') = DiskRows(qc)
          /\ IF SaveStep
             THEN {qcfile'.rows[j] : j \in DOMAIN qcfile'.rows} = DiskRows(qc)
             ELSE qcfile' = qcfile]_vars

\* the run is at the prompt of its second row after a save there: qc is in
\* the order of (id, name), which is not the order of the traversal, and
\* qc.csv holds the ledger of the run with the label given to the first row
C22_Witness ==
    /\ pc = "prompt"
    /\ Len(shown) = 2
    /\ \E k \in DOMAIN qc : qc[k].idx # rows[k].idx
    /\ to_csv(qc) = qcfile.rows
    /\ rows[1].label = <<>>
    /\ label_at(qc, rows[1].idx) # <<>>

I_accept == InputsOf("accept")

\* C23: accept, typed in full, as a prefix, in capitals or as an empty
\* input at the prompt of a row that was played, gives the row its text as
\* label when it has none and leaves the label it has otherwise, changes no
\* other label, leaves a clip under the uid of the row (the one that was
\* there, if one was, and else the scratch clip, which is moved there), and
\* the loop goes on to the next row.
C23_Accept ==
    [][/\ {<<>>, <<"a">>, <<"A">>, W_accept} \subseteq I_accept
       /\ (pc = "prompt" /\ bool_played /\ \E w \in I_accept : Accept(w)) =>
             /\ pc' = "loop"
             /\ pos' = pos + 1
             /\ label_at(qc', row.idx) =
                   IF label_at(qc, row.idx) = <<>> THEN row.text
                   ELSE label_at(qc, row.idx)
             /\ \A k \in DOMAIN rows :
                   k # pos =>
                       label_at(qc', rows[k].idx) = label_at(qc, rows[k].idx)
             /\ cache'[row.uid] # NoClip
             /\ cache[row.uid] = NoClip =>
                   cache'[row.uid] = temp_clip /\ temp_clip' = NoClip
             /\ \A u \in AllUids : cache[u] # NoClip => cache'[u] = cache[u]
             /\ \A u \in AllUids : u # row.uid => cache'[u] = cache[u]
             /\ qcfile' = qcfile]_vars

\* a run that revisits has gone past a row that had a label other than its
\* text when it was reached and has it still, its clip in the cache; the
\* scratch clip cut for the row is still there
C23_Witness ==
    /\ pc = "loop"
    /\ pos > 1
    /\ bool_revisit = "True"
    /\ shown # <<>>
    /\ LastShown = rows[pos - 1].idx
    /\ rows[pos - 1].label = <<"o", " ", "k">>
    /\ label_at(qc, LastShown) = <<"o", " ", "k">>
    /\ rows[pos - 1].text = <<"h", "i">>
    /\ temp_clip = Clip(rows[pos - 1].name, rows[pos - 1].id)

\* C24: a step that puts a file under a uid puts it under the uid of the
\* row at the prompt, and the file is the clip cut from the recording of
\* that row over the segment of that row, never the clip cut for another
\* row (stated for runs in which no write to disk has failed).
C24_OwnClip ==
    [][faults = 0 =>
         \A u \in AllUids :
             cache'[u] # cache[u] =>
                 /\ pc = "prompt"
                 /\ u = row.uid
                 /\ cache'[u] = Clip(row.name, row.id)]_vars

====
